---------------------------- MODULE Spec2Model ----------------------------
(* Model of the text adventure of src/prime.cpp: the room graph, the      *)
(* items, the player and the command loop of Game::run; and of the        *)
(* binary search of src/p1.cpp.                                            *)
(* A std::string is a sequence of one-character strings, so that          *)
(* lowercasing, tokenizing and trimming are computed the way the code     *)
(* computes them.                                                          *)
EXTENDS Integers, Sequences, FiniteSets, TLC

VARIABLES
    exits,      \* room -> (direction string -> room): Room::exits of every room
    items,      \* room -> sequence of items: Room::items of every room
    loc,        \* Player::currentLocation
    inventory,  \* Player::inventory
    gameOver,   \* Game::gameOver
    pc,         \* where the loop blocks: "prompt", "confirm", or "done" once run() has returned
    eof,        \* std::cin has reported end of input
    inputLine,  \* the line handed out by the last std::getline
    out,        \* the messages printed by the last step
    call,       \* the last direct call of a Room member function, with its result
    prev,       \* the direct call before that one
    bs          \* the running call of binarySearch: its arguments, locals and position

vars == <<exits, items, loc, inventory, gameOver, pc, eof, inputLine, out, call, prev, bs>>

(* ------------------------------ bounds ------------------------------- *)

\* how many of the takeable items the input lines name in a take command
MaxTakeNouns == 2

\* longest item list built through direct Room::addItem calls
MaxRoomItems == 3

\* number of bits of an int in the binary search
IntWidth == 4

\* longest vector handed to binarySearch
MaxLen == 7

(* ------------------------------ strings ------------------------------ *)

NULL == "nullptr"

UpperCase == <<"A","B","C","D","E","F","G","H","I","J","K","L","M",
               "N","O","P","Q","R","S","T","U","V","W","X","Y","Z">>
LowerCase == <<"a","b","c","d","e","f","g","h","i","j","k","l","m",
               "n","o","p","q","r","s","t","u","v","w","x","y","z">>

\* the lowercase letter of every uppercase letter
LowerOf ==
    [c \in {UpperCase[k] : k \in 1..26} |->
        LowerCase[CHOOSE k \in 1..26 : UpperCase[k] = c]]

\* ::tolower on one character
tolower(c) == IF c \in DOMAIN LowerOf THEN LowerOf[c] ELSE c

\* std::transform(s.begin(), s.end(), s.begin(), ::tolower)
ToLower(s) == [k \in 1..Len(s) |-> tolower(s[k])]

\* std::isspace, as operator>> uses it to delimit a word
isspace(c) == c \in {" ", "\t"}

(* ------------------------------- items ------------------------------- *)

ItemTable ==
    "key"       :> [name |-> <<"R","u","s","t","y"," ","K","e","y">>, takeable |-> TRUE] @@
    "map"       :> [name |-> <<"T","o","r","n"," ","M","a","p">>, takeable |-> TRUE] @@
    "torch"     :> [name |-> <<"D","i","m"," ","T","o","r","c","h">>, takeable |-> TRUE] @@
    "sword"     :> [name |-> <<"I","r","o","n"," ","S","w","o","r","d">>, takeable |-> TRUE] @@
    "shield"    :> [name |-> <<"W","o","o","d","e","n"," ","S","h","i","e","l","d">>, takeable |-> TRUE] @@
    "potion"    :> [name |-> <<"R","e","d"," ","P","o","t","i","o","n">>, takeable |-> TRUE] @@
    "book"      :> [name |-> <<"D","u","s","t","y"," ","B","o","o","k">>, takeable |-> TRUE] @@
    "coin"      :> [name |-> <<"G","o","l","d"," ","C","o","i","n">>, takeable |-> TRUE] @@
    "gem"       :> [name |-> <<"B","l","u","e"," ","G","e","m">>, takeable |-> TRUE] @@
    "scroll"    :> [name |-> <<"A","n","c","i","e","n","t"," ","S","c","r","o","l","l">>, takeable |-> TRUE] @@
    "statue"    :> [name |-> <<"S","t","o","n","e"," ","S","t","a","t","u","e">>, takeable |-> FALSE] @@
    "fountain"  :> [name |-> <<"D","r","y"," ","F","o","u","n","t","a","i","n">>, takeable |-> FALSE] @@
    "altar"     :> [name |-> <<"S","t","o","n","e"," ","A","l","t","a","r">>, takeable |-> FALSE] @@
    "tapestry"  :> [name |-> <<"F","a","d","e","d"," ","T","a","p","e","s","t","r","y">>, takeable |-> FALSE] @@
    "painting"  :> [name |-> <<"O","i","l"," ","P","a","i","n","t","i","n","g">>, takeable |-> FALSE] @@
    "well"      :> [name |-> <<"D","e","e","p"," ","W","e","l","l">>, takeable |-> FALSE] @@
    "table"     :> [name |-> <<"W","o","o","d","e","n"," ","T","a","b","l","e">>, takeable |-> FALSE] @@
    "chair"     :> [name |-> <<"R","i","c","k","e","t","y"," ","C","h","a","i","r">>, takeable |-> FALSE] @@
    "bed"       :> [name |-> <<"S","t","r","a","w"," ","B","e","d">>, takeable |-> FALSE] @@
    "fireplace" :> [name |-> <<"C","o","l","d"," ","F","i","r","e","p","l","a","c","e">>, takeable |-> FALSE]

Items == DOMAIN ItemTable

\* the lowercased name of every item
NameLower == [item \in Items |-> ToLower(ItemTable[item].name)]

\* Item::getNameLower
getNameLower(item) == NameLower[item]

(* ------------------------------- rooms ------------------------------- *)

\* Game::allRooms in push_back order
allRooms ==
    <<"start_cell", "corridor_1", "guard_room", "armory", "main_hall",
      "kitchen", "pantry", "library", "study", "courtyard", "garden_path",
      "deep_forest", "cellar_stairs", "wine_cellar", "storage_room",
      "hidden_passage", "underground_stream", "outer_gate", "tower_base",
      "tower_stairs", "tower_top">>

Rooms == {allRooms[k] : k \in 1..Len(allRooms)}

\* Room::name of every room
RoomName ==
    [start_cell |-> "Damp Cell", corridor_1 |-> "Narrow Corridor",
     guard_room |-> "Guard Room", armory |-> "Small Armory",
     main_hall |-> "Main Hall", kitchen |-> "Abandoned Kitchen",
     pantry |-> "Dusty Pantry", library |-> "Quiet Library",
     study |-> "Small Study", courtyard |-> "Overgrown Courtyard",
     garden_path |-> "Garden Path", deep_forest |-> "Deep Forest",
     cellar_stairs |-> "Cellar Stairs", wine_cellar |-> "Wine Cellar",
     storage_room |-> "Storage Room", hidden_passage |-> "Hidden Passage",
     underground_stream |-> "Underground Stream", outer_gate |-> "Outer Gate",
     tower_base |-> "Tower Base", tower_stairs |-> "Tower Stairs",
     tower_top |-> "Tower Top"]

\* a Room as its constructor leaves it: no exits, no items
NoExits == [d \in {} |-> NULL]

\* Room::getExit: lookup by the key exactly as given
getExit(e, direction) ==
    IF direction \in DOMAIN e THEN e[direction] ELSE NULL

\* Room::addExit storing the direction as it is given
addExitAsGiven(e, direction, targetRoom) ==
    [d \in (DOMAIN e) \cup {direction} |->
        IF d = direction THEN targetRoom ELSE e[d]]

\* Room::addExit keeping the target a direction already has
addExitKeepsFirst(e, direction, targetRoom) ==
    LET lowerDir == ToLower(direction)
    IN  [d \in (DOMAIN e) \cup {lowerDir} |->
            IF d \in DOMAIN e THEN e[d] ELSE targetRoom]

\* Room::addExit: lowercases the direction, then stores or overwrites
addExit(e, direction, targetRoom) ==
    LET lowerDir == ToLower(direction)
    IN  [d \in (DOMAIN e) \cup {lowerDir} |->
            IF d = lowerDir THEN targetRoom ELSE e[d]]

\* Room::addItem: appends, ignoring a null pointer
addItem(its, item) ==
    IF item # NULL THEN Append(its, item) ELSE its

\* index of the first entry of an item list whose lowercased name is nameLower, 0 if none
FirstMatch(its, nameLower) ==
    IF \E k \in 1..Len(its) : getNameLower(its[k]) = nameLower
    THEN CHOOSE k \in 1..Len(its) :
            /\ getNameLower(its[k]) = nameLower
            /\ \A j \in 1..(k-1) : getNameLower(its[j]) # nameLower
    ELSE 0

\* Room::findItem
findItem(its, itemNameLower) ==
    LET k == FirstMatch(its, itemNameLower)
    IN  IF k = 0 THEN NULL ELSE its[k]

\* Room::removeItem returning the item it finds without erasing it
removeItemKeepsIt(its, itemNameLower) ==
    LET k == FirstMatch(its, itemNameLower)
    IN  [ret |-> IF k = 0 THEN NULL ELSE its[k], items |-> its]

\* Room::removeItem: the removed item (or null) and the item list afterwards
removeItem(its, itemNameLower) ==
    LET k == FirstMatch(its, itemNameLower)
    IN  IF k = 0
        THEN [ret |-> NULL, items |-> its]
        ELSE [ret |-> its[k],
              items |-> SubSeq(its, 1, k-1) \o SubSeq(its, k+1, Len(its))]

(* --------------------------- world creation -------------------------- *)

north == <<"n","o","r","t","h">>
south == <<"s","o","u","t","h">>
east  == <<"e","a","s","t">>
west  == <<"w","e","s","t">>
up    == <<"u","p">>
down  == <<"d","o","w","n">>

\* the addExit calls of Game::createWorld, in program order
ExitCalls ==
    << <<"start_cell", north, "corridor_1">>,
       <<"corridor_1", south, "start_cell">>,
       <<"corridor_1", north, "main_hall">>,
       <<"guard_room", south, "corridor_1">>,
       <<"guard_room", west, "armory">>,
       <<"start_cell", north, "corridor_1">>,
       <<"corridor_1", south, "start_cell">>,
       <<"corridor_1", north, "guard_room">>,
       <<"guard_room", south, "corridor_1">>,
       <<"guard_room", west, "armory">>,
       <<"guard_room", north, "main_hall">>,
       <<"armory", east, "guard_room">>,
       <<"main_hall", south, "guard_room">>,
       <<"main_hall", east, "kitchen">>,
       <<"main_hall", west, "library">>,
       <<"main_hall", north, "courtyard">>,
       <<"main_hall", down, "cellar_stairs">>,
       <<"kitchen", west, "main_hall">>,
       <<"kitchen", north, "pantry">>,
       <<"pantry", south, "kitchen">>,
       <<"library", east, "main_hall">>,
       <<"library", north, "study">>,
       <<"study", south, "library">>,
       <<"courtyard", south, "main_hall">>,
       <<"courtyard", east, "garden_path">>,
       <<"courtyard", north, "outer_gate">>,
       <<"outer_gate", south, "courtyard">>,
       <<"garden_path", west, "courtyard">>,
       <<"garden_path", east, "deep_forest">>,
       <<"garden_path", north, "tower_base">>,
       <<"deep_forest", west, "garden_path">>,
       <<"tower_base", south, "garden_path">>,
       <<"tower_base", north, "tower_stairs">>,
       <<"tower_stairs", down, "tower_base">>,
       <<"tower_stairs", up, "tower_top">>,
       <<"tower_top", down, "tower_stairs">>,
       <<"cellar_stairs", up, "main_hall">>,
       <<"cellar_stairs", down, "wine_cellar">>,
       <<"wine_cellar", up, "cellar_stairs">>,
       <<"wine_cellar", east, "storage_room">>,
       <<"storage_room", west, "wine_cellar">>,
       <<"storage_room", east, "hidden_passage">>,
       <<"hidden_passage", west, "storage_room">>,
       <<"hidden_passage", north, "underground_stream">>,
       <<"underground_stream", south, "hidden_passage">> >>

\* the addItem calls of Game::createWorld, in program order
ItemCalls ==
    << <<"start_cell", "torch">>, <<"start_cell", "bed">>,
       <<"armory", "sword">>, <<"armory", "shield">>, <<"armory", "gem">>,
       <<"guard_room", "table">>, <<"guard_room", "chair">>, <<"guard_room", "coin">>,
       <<"main_hall", "tapestry">>, <<"main_hall", "statue">>,
       <<"kitchen", "fireplace">>, <<"kitchen", "potion">>,
       <<"pantry", "scroll">>,
       <<"library", "book">>,
       <<"study", "painting">>, <<"study", "key">>,
       <<"courtyard", "fountain">>, <<"courtyard", "well">>,
       <<"storage_room", "map">>,
       <<"wine_cellar", "altar">> >>

RECURSIVE LinkRooms(_, _)
\* the exits of every room after the first n addExit calls
LinkRooms(ex, n) ==
    IF n = 0 THEN ex
    ELSE LET before == LinkRooms(ex, n - 1)
             c == ExitCalls[n]
         IN  [before EXCEPT ![c[1]] = addExit(before[c[1]], c[2], c[3])]

RECURSIVE PlaceItems(_, _)
\* the items of every room after the first n addItem calls
PlaceItems(its, n) ==
    IF n = 0 THEN its
    ELSE LET before == PlaceItems(its, n - 1)
             c == ItemCalls[n]
         IN  [before EXCEPT ![c[1]] = addItem(before[c[1]], c[2])]

\* Game::createWorld: the exits and items of the built world
createWorld ==
    [exits |-> LinkRooms([r \in Rooms |-> NoExits], Len(ExitCalls)),
     items |-> PlaceItems([r \in Rooms |-> <<>>], Len(ItemCalls))]

(* ------------------------------- player ------------------------------ *)

\* A game state is a record st with the fields exits, items, loc, inventory,
\* gameOver, pc and out; every operation below maps a state to the state
\* it leaves behind.  A printed message is a pair <<kind, subject>>.

Say(st, msgs) == [st EXCEPT !.out = st.out \o msgs]

\* Player::moveTo describing the new room without moving there
moveToStays(st, newRoom) ==
    IF newRoom # NULL
    THEN Say(st, << <<"Location", newRoom>> >>)
    ELSE st

\* Player::moveTo
moveTo(st, newRoom) ==
    IF newRoom # NULL
    THEN Say([st EXCEPT !.loc = newRoom], << <<"Location", newRoom>> >>)
    ELSE st

\* Player::go without the lowercasing of the direction
goExactCase(st, direction) ==
    IF st.loc = NULL
    THEN Say(st, << <<"FloatingInVoid", "">> >>)
    ELSE LET nextRoom == getExit(st.exits[st.loc], direction)
         IN  IF nextRoom # NULL
             THEN moveTo(Say(st, << <<"YouMove", "">> >>), nextRoom)
             ELSE Say(st, << <<"CantGoThatWay", "">> >>)

\* Player::go with the lookup done by exits[lowerDir], which adds the key
\* it does not find
goInsertsKey(st, direction) ==
    IF st.loc = NULL
    THEN Say(st, << <<"FloatingInVoid", "">> >>)
    ELSE LET lowerDir == ToLower(direction)
             nextRoom == getExit(st.exits[st.loc], lowerDir)
         IN  IF nextRoom # NULL
             THEN moveTo(Say(st, << <<"YouMove", "">> >>), nextRoom)
             ELSE Say([st EXCEPT !.exits[st.loc] =
                          [d \in (DOMAIN @) \cup {lowerDir} |->
                              IF d \in DOMAIN @ THEN @[d] ELSE NULL]],
                      << <<"CantGoThatWay", "">> >>)

\* Player::go moving to whatever getExit returns, a null pointer included
goUnchecked(st, direction) ==
    LET lowerDir == ToLower(direction)
        nextRoom == IF st.loc = NULL THEN NULL ELSE getExit(st.exits[st.loc], lowerDir)
    IN  [Say(st, << <<"YouMove", "">> >>) EXCEPT !.loc = nextRoom]

\* Player::go
go(st, direction) ==
    IF st.loc = NULL
    THEN Say(st, << <<"FloatingInVoid", "">> >>)
    ELSE LET lowerDir == ToLower(direction)
             nextRoom == getExit(st.exits[st.loc], lowerDir)
         IN  IF nextRoom # NULL
             THEN moveTo(Say(st, << <<"YouMove", "">> >>), nextRoom)
             ELSE Say(st, << <<"CantGoThatWay", "">> >>)

\* Player::look
look(st) ==
    IF st.loc # NULL
    THEN Say(st, << <<"Location", st.loc>> >>)
    ELSE Say(st, << <<"Nowhere", "">> >>)

\* Player::lookAt fetching the item of the room with removeItem
lookAtRemoves(st, itemName) ==
    LET lowerName == ToLower(itemName)
        k == FirstMatch(st.inventory, lowerName)
        removed == IF st.loc # NULL
                   THEN removeItem(st.items[st.loc], lowerName)
                   ELSE [ret |-> NULL, items |-> <<>>]
    IN  IF k # 0 THEN Say(st, << <<"Describe", st.inventory[k]>> >>)
        ELSE IF removed.ret # NULL
        THEN Say([st EXCEPT !.items[st.loc] = removed.items],
                 << <<"Describe", removed.ret>> >>)
        ELSE Say(st, << <<"DontSeeAny", "">> >>)

\* Player::lookAt: the inventory is searched before the room
lookAt(st, itemName) ==
    LET lowerName == ToLower(itemName)
        k == FirstMatch(st.inventory, lowerName)
        itemInRoom == IF st.loc # NULL
                      THEN findItem(st.items[st.loc], lowerName)
                      ELSE NULL
    IN  IF k # 0 THEN Say(st, << <<"Describe", st.inventory[k]>> >>)
        ELSE IF itemInRoom # NULL THEN Say(st, << <<"Describe", itemInRoom>> >>)
        ELSE Say(st, << <<"DontSeeAny", "">> >>)

\* Player::take with one of its steps changed:
\*   checkFlag  - the takeable flag is tested
\*   erase      - the item is removed from the room
\*   atEnd      - the item is appended to (rather than put in front of) the inventory
\*   anyRoom    - an item not found in the current room is looked for in all rooms
takeVariant(st, itemName, checkFlag, erase, atEnd, anyRoom) ==
    LET lowerName == ToLower(itemName)
        holders == {r \in Rooms : findItem(st.items[r], lowerName) # NULL}
        room == IF findItem(st.items[st.loc], lowerName) # NULL \/ ~anyRoom \/ holders = {}
                THEN st.loc
                ELSE CHOOSE r \in holders : TRUE
        itemToTake == findItem(st.items[room], lowerName)
        removed == removeItem(st.items[room], lowerName)
    IN  IF itemToTake = NULL
        THEN Say(st, << <<"DontSeeToTake", "">> >>)
        ELSE IF checkFlag /\ ~ItemTable[itemToTake].takeable
        THEN Say(st, << <<"CantTake", itemToTake>> >>)
        ELSE Say([st EXCEPT !.items[room] = IF erase THEN removed.items ELSE @,
                            !.inventory = IF atEnd THEN Append(@, itemToTake)
                                          ELSE <<itemToTake>> \o @],
                 << <<"PickedUp", itemToTake>> >>)

takeKeepsInRoom(st, itemName) == takeVariant(st, itemName, TRUE, FALSE, TRUE, FALSE)

takeIgnoresFlag(st, itemName) == takeVariant(st, itemName, FALSE, TRUE, TRUE, FALSE)

takeFromAnyRoom(st, itemName) == takeVariant(st, itemName, TRUE, TRUE, TRUE, TRUE)

takePutsInFront(st, itemName) == takeVariant(st, itemName, TRUE, TRUE, FALSE, FALSE)

\* Player::take
take(st, itemName) ==
    IF st.loc = NULL
    THEN Say(st, << <<"NothingHereToTake", "">> >>)
    ELSE LET lowerName == ToLower(itemName)
             itemToTake == findItem(st.items[st.loc], lowerName)
             removed == removeItem(st.items[st.loc], lowerName)
         IN  IF itemToTake = NULL
             THEN Say(st, << <<"DontSeeToTake", "">> >>)
             ELSE IF ~ItemTable[itemToTake].takeable
             THEN Say(st, << <<"CantTake", itemToTake>> >>)
             ELSE IF removed.ret # NULL
             THEN Say([st EXCEPT !.items[st.loc] = removed.items,
                                 !.inventory = Append(st.inventory, removed.ret)],
                      << <<"PickedUp", removed.ret>> >>)
             ELSE Say([st EXCEPT !.items[st.loc] = removed.items],
                      << <<"SomethingWentWrong", "">> >>)

\* Player::showInventory
showInventory(st) ==
    IF st.inventory = <<>>
    THEN Say(st, << <<"NotCarryingAnything", "">> >>)
    ELSE Say(st, [k \in 1..Len(st.inventory) |-> <<"Carrying", st.inventory[k]>>])

\* Player::hasItem
hasItem(st, itemNameLower) == FirstMatch(st.inventory, itemNameLower) # 0

(* ---------------------------- interpreter ---------------------------- *)

\* Game::parseInput leaving the verb in the letter case it was typed in
parseInputKeepsCase(input) ==
    LET n == Len(input)
        wordChars == {k \in 1..n : ~isspace(input[k])}
    IN  IF wordChars = {}
        THEN [verb |-> <<>>, noun |-> <<>>]
        ELSE LET first == CHOOSE k \in wordChars : \A j \in wordChars : k <= j
                 last  == CHOOSE k \in first..n :
                             /\ \A j \in first..k : ~isspace(input[j])
                             /\ (k = n \/ isspace(input[k+1]))
                 remaining == SubSeq(input, last + 1, n)
                 nonBlank == {k \in 1..Len(remaining) : remaining[k] # " "}
                 firstChar == CHOOSE k \in nonBlank : \A j \in nonBlank : k <= j
             IN  [verb |-> SubSeq(input, first, last),
                  noun |-> IF nonBlank = {} THEN <<>>
                           ELSE SubSeq(remaining, firstChar, Len(remaining))]

\* Game::parseInput: the lowercased first word and the rest of the line
\* with its leading blanks (spaces only) cut off
parseInput(input) ==
    LET n == Len(input)
        wordChars == {k \in 1..n : ~isspace(input[k])}
    IN  IF wordChars = {}
        THEN [verb |-> <<>>, noun |-> <<>>]
        ELSE LET first == CHOOSE k \in wordChars : \A j \in wordChars : k <= j
                 last  == CHOOSE k \in first..n :
                             /\ \A j \in first..k : ~isspace(input[j])
                             /\ (k = n \/ isspace(input[k+1]))
                 remaining == SubSeq(input, last + 1, n)
                 nonBlank == {k \in 1..Len(remaining) : remaining[k] # " "}
                 firstChar == CHOOSE k \in nonBlank : \A j \in nonBlank : k <= j
             IN  [verb |-> ToLower(SubSeq(input, first, last)),
                  noun |-> IF nonBlank = {} THEN <<>>
                           ELSE SubSeq(remaining, firstChar, Len(remaining))]

quit      == <<"q","u","i","t">>
exit      == <<"e","x","i","t">>
lookVerb  == <<"l","o","o","k">>
goVerb    == <<"g","o">>
move      == <<"m","o","v","e">>
walk      == <<"w","a","l","k">>
takeVerb  == <<"t","a","k","e">>
get       == <<"g","e","t">>
pickup    == <<"p","i","c","k","u","p">>
inventoryVerb == <<"i","n","v","e","n","t","o","r","y">>
iVerb     == <<"i">>
help      == <<"h","e","l","p">>
questionMark == <<"?">>
yes       == <<"y","e","s">>
yVerb     == <<"y">>

\* Game::handleCommand with one of its branches changed:
\*   unknownFails - a verb that is not known gets the "don't understand" message
\*                  (rather than being taken for look)
\*   needsNoun    - go and take without a noun only print their hint
\*   walkGoes     - walk is a synonym of go
handleVariant(st, verb, noun, unknownFails, needsNoun, walkGoes) ==
    IF verb = quit \/ verb = exit
    THEN Say([st EXCEPT !.pc = "confirm"], << <<"AreYouSure", "">> >>)
    ELSE IF verb = lookVerb
    THEN (IF noun = <<>> THEN look(st) ELSE lookAt(st, noun))
    ELSE IF verb = goVerb \/ verb = move \/ (walkGoes /\ verb = walk)
    THEN (IF needsNoun /\ noun = <<>> THEN Say(st, << <<"GoWhere", "">> >>) ELSE go(st, noun))
    ELSE IF verb = takeVerb \/ verb = get \/ verb = pickup
    THEN (IF needsNoun /\ noun = <<>> THEN Say(st, << <<"TakeWhat", "">> >>) ELSE take(st, noun))
    ELSE IF verb = inventoryVerb \/ verb = iVerb
    THEN showInventory(st)
    ELSE IF verb = help \/ verb = questionMark
    THEN Say(st, << <<"Help", "">> >>)
    ELSE IF unknownFails
    THEN Say(st, << <<"DontUnderstand", "">> >>)
    ELSE look(st)

handleCommandUnknownLooks(st, verb, noun) == handleVariant(st, verb, noun, FALSE, TRUE, TRUE)

handleCommandNoNounCheck(st, verb, noun) == handleVariant(st, verb, noun, TRUE, FALSE, TRUE)

handleCommandWalkUnknown(st, verb, noun) == handleVariant(st, verb, noun, TRUE, TRUE, FALSE)

\* Game::handleCommand up to the point where it returns or, for quit and
\* exit, blocks reading the confirmation
handleCommand(st, verb, noun) ==
    IF verb = quit \/ verb = exit
    THEN Say([st EXCEPT !.pc = "confirm"], << <<"AreYouSure", "">> >>)
    ELSE IF verb = lookVerb
    THEN (IF noun = <<>> THEN look(st) ELSE lookAt(st, noun))
    ELSE IF verb = goVerb \/ verb = move \/ verb = walk
    THEN (IF noun = <<>> THEN Say(st, << <<"GoWhere", "">> >>) ELSE go(st, noun))
    ELSE IF verb = takeVerb \/ verb = get \/ verb = pickup
    THEN (IF noun = <<>> THEN Say(st, << <<"TakeWhat", "">> >>) ELSE take(st, noun))
    ELSE IF verb = inventoryVerb \/ verb = iVerb
    THEN showInventory(st)
    ELSE IF verb = help \/ verb = questionMark
    THEN Say(st, << <<"Help", "">> >>)
    ELSE Say(st, << <<"DontUnderstand", "">> >>)

\* the confirmation compared without lowercasing it
confirmQuitExactCase(st, answer) ==
    IF answer = yes \/ answer = yVerb
    THEN Say([st EXCEPT !.gameOver = TRUE, !.pc = "prompt"], << <<"Goodbye", "">> >>)
    ELSE Say([st EXCEPT !.pc = "prompt"], << <<"Continuing", "">> >>)

\* a confirmation that is asked for again until the answer is yes or y
confirmQuitAsksAgain(st, answer) ==
    LET confirmation == ToLower(answer)
    IN  IF confirmation = yes \/ confirmation = yVerb
        THEN Say([st EXCEPT !.gameOver = TRUE, !.pc = "prompt"], << <<"Goodbye", "">> >>)
        ELSE Say([st EXCEPT !.pc = "confirm"], << <<"Continuing", "">> >>)

\* Game::handleCommand from the confirmation read to its return
confirmQuit(st, answer) ==
    LET confirmation == ToLower(answer)
    IN  IF confirmation = yes \/ confirmation = yVerb
        THEN Say([st EXCEPT !.gameOver = TRUE, !.pc = "prompt"], << <<"Goodbye", "">> >>)
        ELSE Say([st EXCEPT !.pc = "prompt"], << <<"Continuing", "">> >>)

\* the body of the loop of Game::run for one line that was read
runBody(st, line) ==
    IF line = <<>> THEN st
    ELSE LET cmd == parseInput(line)
         IN  IF cmd.verb # <<>> THEN handleCommand(st, cmd.verb, cmd.noun)
             ELSE IF \E k \in 1..Len(line) : line[k] # " "
             THEN Say(st, << <<"EnterValidCommand", "">> >>)
             ELSE st

\* a loop that never tests gameOver
loopTestMissing(st) == st

\* the test of the loop of Game::run: it is left once gameOver is set
loopTest(st) ==
    IF st.pc = "prompt" /\ st.gameOver THEN [st EXCEPT !.pc = "done"] ELSE st

(* ------------------------------ the game ----------------------------- *)

\* no call of binarySearch is running
NoSearch == [arr |-> <<>>, target |-> 0, low |-> 0, high |-> 0, mid |-> 0,
             ret |-> 0, pc |-> "none", ub |-> FALSE]

NoCall == [op |-> "none", dir |-> <<>>, target |-> NULL, item |-> NULL,
           name |-> <<>>, ret |-> NULL, before |-> <<>>]

\* Game::Game taking the second room of allRooms as the starting room
GameInitSecondRoom ==
    LET w == createWorld
        start == allRooms[2]
    IN  [exits |-> w.exits, items |-> w.items, loc |-> start, inventory |-> <<>>,
         gameOver |-> FALSE, pc |-> "prompt",
         out |-> << <<"Location", start>> >>]

\* Game::Game followed by the start of Game::run, up to the first prompt
GameInit ==
    LET w == createWorld
        start == IF Len(allRooms) > 0 THEN allRooms[1] ELSE NULL
        empty == Len(allRooms) = 0
    IN  [exits |-> w.exits, items |-> w.items, loc |-> start, inventory |-> <<>>,
         gameOver |-> empty,
         pc |-> IF empty THEN "done" ELSE "prompt",
         out |-> IF empty THEN << <<"CannotStart", "">> >>
                 ELSE << <<"Location", start>> >>]

Init ==
    /\ exits = GameInit.exits
    /\ items = GameInit.items
    /\ loc = GameInit.loc
    /\ inventory = GameInit.inventory
    /\ gameOver = GameInit.gameOver
    /\ pc = GameInit.pc
    /\ out = GameInit.out
    /\ eof = FALSE
    /\ inputLine = <<>>
    /\ call = NoCall
    /\ prev = NoCall
    /\ bs = NoSearch

\* the current game state, with nothing printed yet
Current ==
    [exits |-> exits, items |-> items, loc |-> loc, inventory |-> inventory,
     gameOver |-> gameOver, pc |-> pc, out |-> <<>>]

Becomes(st) ==
    /\ exits' = st.exits
    /\ items' = st.items
    /\ loc' = st.loc
    /\ inventory' = st.inventory
    /\ gameOver' = st.gameOver
    /\ pc' = st.pc
    /\ out' = st.out

(* input lines *)

Cmd(verb, noun) == verb \o <<" ">> \o noun

NORTH == <<"N","O","R","T","H">>
North == <<"N","o","r","t","h">>
UP    == <<"U","P">>
Directions == {north, south, east, west, up, down}

\* the takeable items, in the order in which the input lines come to name them
TakeOrder == <<"torch", "sword", "shield", "coin", "gem", "potion", "scroll", "book", "key", "map">>

TakeNouns ==
    {getNameLower(TakeOrder[k]) : k \in 1..(IF MaxTakeNouns < Len(TakeOrder) THEN MaxTakeNouns ELSE Len(TakeOrder))}

GoLines ==
    {Cmd(goVerb, d) : d \in Directions}
    \cup {Cmd(<<"G","O">>, NORTH), Cmd(goVerb, North), Cmd(move, north), Cmd(walk, south),
          Cmd(goVerb, north \o <<" ">>), goVerb, goVerb \o <<" ">>}

TakeLines ==
    {Cmd(takeVerb, n) : n \in TakeNouns}
    \cup {Cmd(<<"T","a","k","e">>, <<"D","I","M"," ","T","O","R","C","H">>),
          Cmd(get, ItemTable["torch"].name),
          Cmd(pickup, getNameLower("sword")),
          Cmd(takeVerb, getNameLower("bed")),
          Cmd(takeVerb, ItemTable["table"].name),
          Cmd(takeVerb, <<"u","n","i","c","o","r","n">>),
          Cmd(takeVerb, <<"t","o","r","c","h">>),
          Cmd(takeVerb, <<"b","e","d">>),
          takeVerb}

OtherLines ==
    {<<>>, <<" ", " ">>, <<"\t">>,
     lookVerb, Cmd(lookVerb, getNameLower("torch")), Cmd(lookVerb, getNameLower("bed")),
     inventoryVerb, iVerb, help, questionMark,
     quit, exit, <<"Q","u","i","t">>,
     yes, yVerb, <<"Y","E","S">>, <<"n","o">>, <<" ">> \o yes,
     <<"d","a","n","c","e">>,
     Cmd(<<"d","r","o","p">>, <<"d","i","m"," ","t","o","r","c","h">>)}

Lines == GoLines \cup TakeLines \cup OtherLines

(* steps of Game::run *)

\* std::getline in Game::run delivers a line and the loop body handles it
ReadLine(line) ==
    /\ pc = "prompt"
    /\ ~eof
    /\ inputLine' = line
    /\ Becomes(loopTest(runBody(Current, line)))
    /\ UNCHANGED <<eof, call, prev, bs>>

\* std::getline in Game::handleCommand delivers the answer to the quit question
Confirm(line) ==
    /\ pc = "confirm"
    /\ ~eof
    /\ inputLine' = line
    /\ Becomes(loopTest(confirmQuit(Current, line)))
    /\ UNCHANGED <<eof, call, prev, bs>>

\* std::getline in Game::run fails: the loop is left through break
EndOfInput ==
    /\ pc = "prompt"
    /\ eof' = TRUE
    /\ inputLine' = <<>>
    /\ Becomes(Say([Current EXCEPT !.pc = "done"], << <<"EofQuitting", "">> >>))
    /\ UNCHANGED <<call, prev, bs>>

\* std::getline in Game::handleCommand fails: the confirmation stays empty
ConfirmEndOfInput ==
    /\ pc = "confirm"
    /\ eof' = TRUE
    /\ inputLine' = <<>>
    /\ Becomes(loopTest(confirmQuit(Current, <<>>)))
    /\ UNCHANGED <<call, prev, bs>>

Next ==
    \/ \E line \in Lines : ReadLine(line)
    \/ \E line \in Lines : Confirm(line)
    \/ EndOfInput
    \/ ConfirmEndOfInput

Spec == Init /\ [][Next]_vars

\* the game on a finite input stream: every std::getline returns, with a
\* line or with a failure, and the stream comes to its end at some read
SpecFiniteInput ==
    /\ Spec
    /\ WF_vars(Next)
    /\ SF_vars(EndOfInput \/ ConfirmEndOfInput)

\* the take line of a player who collects the takeable items one after the
\* other, in the order of TakeOrder: none when the inventory is not a part
\* of that order or holds them all
NextTakeLines ==
    IF Len(inventory) < Len(TakeOrder) /\ inventory = SubSeq(TakeOrder, 1, Len(inventory))
    THEN {Cmd(takeVerb, getNameLower(TakeOrder[Len(inventory) + 1]))}
    ELSE {}

\* the game with the input lines of Lines and, besides, the take lines of
\* a player who collects everything
NextCollect ==
    \/ Next
    \/ \E line \in NextTakeLines : ReadLine(line)

SpecCollect == Init /\ [][NextCollect]_vars

(* ---------------- direct use of the Room member functions ------------- *)

\* the room the calls are made on, fresh from its constructor
TestRoom == allRooms[1]

TestDirections == {north, NORTH, North, up, UP}
TestTargets == {allRooms[2], allRooms[5]}
TestItems == {"torch", "bed"}
TestNames == {getNameLower(it) : it \in TestItems} \cup {ItemTable["torch"].name}

InitRoom ==
    /\ exits = [r \in Rooms |-> NoExits]
    /\ items = [r \in Rooms |-> <<>>]
    /\ loc = NULL
    /\ inventory = <<>>
    /\ gameOver = FALSE
    /\ pc = "done"
    /\ out = <<>>
    /\ eof = FALSE
    /\ inputLine = <<>>
    /\ call = NoCall
    /\ prev = NoCall
    /\ bs = NoSearch

CallAddExit(direction, targetRoom) ==
    /\ exits' = [exits EXCEPT ![TestRoom] = addExit(@, direction, targetRoom)]
    /\ call' = [NoCall EXCEPT !.op = "addExit", !.dir = direction, !.target = targetRoom]
    /\ prev' = call
    /\ UNCHANGED <<items, loc, inventory, gameOver, pc, eof, inputLine, out, bs>>

CallGetExit(direction) ==
    /\ call' = [NoCall EXCEPT !.op = "getExit", !.dir = direction,
                              !.ret = getExit(exits[TestRoom], direction)]
    /\ prev' = call
    /\ UNCHANGED <<exits, items, loc, inventory, gameOver, pc, eof, inputLine, out, bs>>

CallAddItem(item) ==
    /\ Len(items[TestRoom]) < MaxRoomItems
    /\ items' = [items EXCEPT ![TestRoom] = addItem(@, item)]
    /\ call' = [NoCall EXCEPT !.op = "addItem", !.item = item, !.before = items[TestRoom]]
    /\ prev' = call
    /\ UNCHANGED <<exits, loc, inventory, gameOver, pc, eof, inputLine, out, bs>>

CallRemoveItem(itemNameLower) ==
    LET r == removeItem(items[TestRoom], itemNameLower)
    IN  /\ items' = [items EXCEPT ![TestRoom] = r.items]
        /\ call' = [NoCall EXCEPT !.op = "removeItem", !.name = itemNameLower,
                                  !.ret = r.ret, !.before = items[TestRoom]]
        /\ prev' = call
        /\ UNCHANGED <<exits, loc, inventory, gameOver, pc, eof, inputLine, out, bs>>

CallFindItem(itemNameLower) ==
    /\ call' = [NoCall EXCEPT !.op = "findItem", !.name = itemNameLower,
                              !.ret = findItem(items[TestRoom], itemNameLower),
                              !.before = items[TestRoom]]
    /\ prev' = call
    /\ UNCHANGED <<exits, items, loc, inventory, gameOver, pc, eof, inputLine, out, bs>>

NextExits ==
    \/ \E d \in TestDirections, x \in TestTargets : CallAddExit(d, x)
    \/ \E d \in TestDirections : CallGetExit(d)

SpecExits == InitRoom /\ [][NextExits]_vars

NextItems ==
    \/ \E it \in TestItems \cup {NULL} : CallAddItem(it)
    \/ \E n \in TestNames : CallRemoveItem(n)
    \/ \E n \in TestNames : CallFindItem(n)

SpecItems == InitRoom /\ [][NextItems]_vars

(* ---------------------- src/p1.cpp: binarySearch --------------------- *)

\* the values of an int
IntMin == -(2^(IntWidth - 1))
IntMax == 2^(IntWidth - 1) - 1
IntRange == IntMin..IntMax

\* a signed int operation whose exact result is x overflows
Overflows(x) == x \notin IntRange

\* what a signed int operation with exact result x can yield: x when an
\* int holds it; on overflow the behaviour is undefined and any int may come out
Results(x) == IF Overflows(x) THEN IntRange ELSE {x}

\* integer division of C++, which truncates toward zero
Quot(a, b) == IF a >= 0 THEN a \div b ELSE -((-a) \div b)

\* conversion of an unsigned value to int: modulo 2^IntWidth
ToInt(x) == ((x + 2^(IntWidth - 1)) % 2^IntWidth) - 2^(IntWidth - 1)

\* arr.size() - 1 is computed in size_t, twice as wide as int here, and
\* then converted to int
sizeMinusOne(n) == ToInt((n - 1) % 2^(2 * IntWidth))

\* the loop condition with < for <=
whileConditionStrict(low, high) == low < high

\* while (low <= high)
whileCondition(low, high) == low <= high

\* the midpoint computed as (low + high) / 2
MidpointsNaive(low, high) ==
    {[mid |-> Quot(sum, 2), ub |-> Overflows(low + high)] : sum \in Results(low + high)}

\* int mid = low + (high - low) / 2: the values mid can get, each with
\* whether an overflow happened on the way
Midpoints(low, high) ==
    UNION {{[mid |-> m, ub |-> Overflows(high - low) \/ Overflows(low + Quot(diff, 2))] :
                m \in Results(low + Quot(diff, 2))} :
           diff \in Results(high - low)}

\* the elements of the vectors and the values searched for
Values == {0, 2}
Targets == {0, 1, 2}

\* arr[mid]: the element when mid is an index of arr; otherwise the
\* access is out of bounds, undefined: any value may be read, or the
\* program may stop
Reads(arr, mid) ==
    IF mid \in 0..(Len(arr) - 1)
    THEN {[value |-> arr[mid + 1], ub |-> FALSE, crashed |-> FALSE]}
    ELSE {[value |-> v, ub |-> TRUE, crashed |-> c] :
             v \in Values \cup Targets, c \in BOOLEAN}

\* the vectors handed to binarySearch: every vector over Values, sorted or
\* not, of a length an int can hold
Vectors == UNION {[1..n -> Values] : n \in 0..(IF MaxLen < IntMax THEN MaxLen ELSE IntMax)}

\* binarySearch entered with arr and target: low and high are initialized
SearchEntry(arr, target) ==
    [arr |-> arr, target |-> target, low |-> 0, high |-> sizeMinusOne(Len(arr)),
     mid |-> 0, ret |-> 0, pc |-> "while", ub |-> FALSE]

InitSearch ==
    /\ exits = [r \in Rooms |-> NoExits]
    /\ items = [r \in Rooms |-> <<>>]
    /\ loc = NULL
    /\ inventory = <<>>
    /\ gameOver = FALSE
    /\ pc = "done"
    /\ out = <<>>
    /\ eof = FALSE
    /\ inputLine = <<>>
    /\ call = NoCall
    /\ prev = NoCall
    /\ \E arr \in Vectors, target \in Targets : bs = SearchEntry(arr, target)

\* the loop test: either mid is computed for the next probe, or the loop
\* ends and binarySearch returns -1
LoopTest ==
    /\ bs.pc = "while"
    /\ IF whileCondition(bs.low, bs.high)
       THEN \E m \in Midpoints(bs.low, bs.high) :
               bs' = [bs EXCEPT !.mid = m.mid, !.ub = @ \/ m.ub, !.pc = "probe"]
       ELSE bs' = [bs EXCEPT !.ret = -1, !.pc = "returned"]
    /\ UNCHANGED <<exits, items, loc, inventory, gameOver, pc, eof, inputLine, out, call, prev>>

\* the loop body after mid: arr[mid] is compared with target; binarySearch
\* returns mid, or low or high moves past mid
Probe ==
    /\ bs.pc = "probe"
    /\ \E r \in Reads(bs.arr, bs.mid) :
          IF r.crashed
          THEN bs' = [bs EXCEPT !.ub = TRUE, !.pc = "crashed"]
          ELSE IF r.value = bs.target
          THEN bs' = [bs EXCEPT !.ub = @ \/ r.ub, !.ret = bs.mid, !.pc = "returned"]
          ELSE IF r.value < bs.target
          THEN \E l \in Results(bs.mid + 1) :
                  bs' = [bs EXCEPT !.low = l, !.ub = @ \/ r.ub \/ Overflows(bs.mid + 1),
                                   !.pc = "while"]
          ELSE \E h \in Results(bs.mid - 1) :
                  bs' = [bs EXCEPT !.high = h, !.ub = @ \/ r.ub \/ Overflows(bs.mid - 1),
                                   !.pc = "while"]
    /\ UNCHANGED <<exits, items, loc, inventory, gameOver, pc, eof, inputLine, out, call, prev>>

NextSearch ==
    \/ LoopTest
    \/ Probe

SpecSearch == InitSearch /\ [][NextSearch]_vars

\* the scheduler runs the call to its end
FairSpecSearch == SpecSearch /\ WF_vars(NextSearch)

(* ------------------------------ properties --------------------------- *)

GoVerbs == {goVerb, move, walk}
TakeVerbs == {takeVerb, get, pickup}

\* what parseInput makes of each input line
ParsedLines == [line \in Lines |-> parseInput(line)]

\* each input line in lowercase, and what parseInput makes of that
LowerLines == [line \in Lines |-> ToLower(line)]
LowerParsed == [line \in Lines |-> parseInput(ToLower(line))]

\* the game state a step leaves behind, with what it printed
Reached ==
    [exits |-> exits', items |-> items', loc |-> loc', inventory |-> inventory',
     gameOver |-> gameOver', pc |-> pc', out |-> out']

\* where the player and the items of a game state are
WorldOf(st) == [loc |-> st.loc, inventory |-> st.inventory, items |-> st.items]

\* a step in which the main loop read a line
LineRead == pc = "prompt" /\ ~eof'

\* a step in which the answer to the quit question was read
AnswerRead == pc = "confirm" /\ ~eof'

\* the positions of an item list whose name equals a noun, letter case aside
Matches(its, noun) ==
    {k \in 1..Len(its) : ToLower(ItemTable[its[k]].name) = ToLower(noun)}

Occurrences(its, item) == Cardinality({k \in 1..Len(its) : its[k] = item})

\* how many times an item occurs in the rooms and the inventory together
Copies(item) ==
    Occurrences(inventory, item)
    + Cardinality({rk \in Rooms \X (1..Cardinality(Items)) :
                      rk[2] <= Len(items[rk[1]]) /\ items[rk[1]][rk[2]] = item})

WithoutIndex(its, k) == SubSeq(its, 1, k - 1) \o SubSeq(its, k + 1, Len(its))

\* C1: in every reachable state each of the 20 items of the world is in
\* exactly one place: once in one room's item list or once in the
\* inventory, never in two places and never in none.
C1_ItemConservation ==
    /\ Cardinality(Items) = 20
    /\ \A item \in Items : Copies(item) = 1

\* two items have been taken, in different rooms
C1_Witness ==
    /\ Len(inventory) = 2
    /\ items["start_cell"] = <<"bed">>
    /\ items["armory"] = <<"shield", "gem">>

\* C2: a go command whose lowercased direction is an exit of the current
\* room puts the player in exactly the room that exit leads to and leaves
\* the inventory and all item lists as they were.
C2_GoMovesToTarget ==
    [][LineRead =>
        LET cmd == ParsedLines[inputLine']
            lowerDir == ToLower(cmd.noun)
        IN  (cmd.verb \in GoVerbs /\ cmd.noun # <<>> /\ lowerDir \in DOMAIN exits[loc])
            => /\ loc' = exits[loc][lowerDir]
               /\ inventory' = inventory
               /\ items' = items]_vars

\* "GO NORTH" typed in the corridor has led to the guard room
C2_Witness ==
    /\ inputLine = Cmd(<<"G","O">>, NORTH)
    /\ loc = "guard_room"
    /\ out = << <<"YouMove", "">>, <<"Location", "guard_room">> >>

\* C3: a go command whose direction is no exit of the current room prints
\* "You can't go that way." and changes nothing: room, inventory, item
\* lists and exits stay, and the loop goes on prompting.
C3_GoBlockedChangesNothing ==
    [][LineRead =>
        LET cmd == ParsedLines[inputLine']
            lowerDir == ToLower(cmd.noun)
        IN  (cmd.verb \in GoVerbs /\ cmd.noun # <<>> /\ lowerDir \notin DOMAIN exits[loc])
            => /\ out' = << <<"CantGoThatWay", "">> >>
               /\ loc' = loc
               /\ inventory' = inventory
               /\ items' = items
               /\ exits' = exits
               /\ pc' = "prompt"
               /\ gameOver' = FALSE]_vars

\* "go up" was refused in the armory while the player carries something
C3_Witness ==
    /\ inputLine = Cmd(goVerb, up)
    /\ out = << <<"CantGoThatWay", "">> >>
    /\ loc = "armory"
    /\ inventory # <<>>

\* C4: a take command naming an item of the current room that is not
\* takeable prints the refusal and leaves the room's item list (content
\* and order) and the inventory as they were.
C4_TakeSceneryRefused ==
    [][LineRead =>
        LET cmd == ParsedLines[inputLine']
            found == Matches(items[loc], cmd.noun)
        IN  (/\ cmd.verb \in TakeVerbs /\ cmd.noun # <<>> /\ found # {}
             /\ \A k \in found : (\A j \in found : k <= j) => ~ItemTable[items[loc][k]].takeable)
            => /\ \E k \in found : out' = << <<"CantTake", items[loc][k]>> >>
               /\ items' = items
               /\ inventory' = inventory
               /\ loc' = loc]_vars

\* the table of the guard room was refused
C4_Witness ==
    /\ inputLine = Cmd(takeVerb, ItemTable["table"].name)
    /\ out = << <<"CantTake", "table">> >>
    /\ items["guard_room"] = <<"table", "chair", "coin">>

\* C5: a take command naming no item of the current room (the name is
\* compared in full, letter case aside), even when the item lies in another
\* room or is carried already, prints the "don't see" message and leaves
\* all item lists, the inventory and the current room as they were.
C5_TakeAbsentChangesNothing ==
    [][LineRead =>
        LET cmd == ParsedLines[inputLine']
        IN  (cmd.verb \in TakeVerbs /\ cmd.noun # <<>> /\ Matches(items[loc], cmd.noun) = {})
            => /\ out' = << <<"DontSeeToTake", "">> >>
               /\ items' = items
               /\ inventory' = inventory
               /\ loc' = loc]_vars

\* the sword was asked for outside the armory, where it still lies
C5_Witness ==
    /\ inputLine = Cmd(pickup, getNameLower("sword"))
    /\ out = << <<"DontSeeToTake", "">> >>
    /\ loc # "armory"
    /\ "sword" \in {items["armory"][k] : k \in 1..Len(items["armory"])}

\* the torch was asked for again while it is carried
C5_WitnessCarried ==
    /\ inputLine = Cmd(takeVerb, getNameLower("torch"))
    /\ out = << <<"DontSeeToTake", "">> >>
    /\ \E k \in 1..Len(inventory) : inventory[k] = "torch"

\* C6: a take that succeeds moves one item in one step: the first item of
\* the current room whose name matches leaves that room's list and becomes
\* the last entry of the inventory; the earlier entries, the other rooms
\* and the current room stay as they were.
C6_TakeMovesOneItem ==
    [][LineRead =>
        LET cmd == ParsedLines[inputLine']
            found == Matches(items[loc], cmd.noun)
        IN  \A k \in found :
              (/\ cmd.verb \in TakeVerbs /\ cmd.noun # <<>>
               /\ \A j \in found : k <= j
               /\ ItemTable[items[loc][k]].takeable)
              => /\ items' = [items EXCEPT ![loc] = WithoutIndex(items[loc], k)]
                 /\ inventory' = Append(inventory, items[loc][k])
                 /\ loc' = loc
                 /\ out' = << <<"PickedUp", items[loc][k]>> >>]_vars

\* the sword was picked up after the torch
C6_Witness ==
    /\ inventory = <<"torch", "sword">>
    /\ out = << <<"PickedUp", "sword">> >>
    /\ items["armory"] = <<"shield", "gem">>

\* the letter-case variants of a direction among the directions tried
Variants(direction) == {u \in TestDirections : ToLower(u) = ToLower(direction)}

\* C7 as stated: after addExit(D, X) on a room, getExit(U) on it returns X
\* for every letter-case variant U of D.
C7_GetExitAnyCase ==
    [][(call.op = "addExit" /\ call'.op = "getExit" /\ call'.dir \in Variants(call.dir))
        => call'.ret = call.target]_vars

\* C7 amended: after addExit(D, X) on a room, getExit returns X when it is
\* given the lowercased form of any letter-case variant U of D; getExit
\* compares the key exactly as given, so it is for the caller to lowercase.
C7_GetExitLowercased ==
    [][\A u \in Variants(call.dir) :
        (call.op = "addExit" /\ call'.op = "getExit" /\ call'.dir = ToLower(u))
        => call'.ret = call.target]_vars

\* addExit("NORTH", X) was followed by getExit("north"), which returned X
C7_Witness ==
    /\ prev.op = "addExit" /\ prev.dir = NORTH
    /\ call.op = "getExit" /\ call.dir = north
    /\ call.ret = prev.target
    /\ call.ret \in TestTargets

\* whether an item list holds an entry with the lowercased name of an item
HoldsName(its, item) ==
    \E k \in 1..Len(its) : getNameLower(its[k]) = getNameLower(item)

\* removeItem(lowercased name of I) right after addItem(I): it returns I,
\* I is gone from the list and the other entries keep their order
RemovedWhatWasAdded ==
    (/\ call.op = "addItem" /\ call.item # NULL
     /\ call'.op = "removeItem" /\ call'.name = getNameLower(call.item))
    => /\ call'.ret = call.item
       /\ \A k \in 1..Len(items'[TestRoom]) : items'[TestRoom][k] # call.item
       /\ \E k \in 1..Len(items[TestRoom]) :
             /\ items[TestRoom][k] = call.item
             /\ items'[TestRoom] = WithoutIndex(items[TestRoom], k)

\* the same removeItem once more: it returns null and changes nothing
SecondRemoveFindsNothing ==
    (/\ prev.op = "addItem" /\ prev.item # NULL
     /\ call.op = "removeItem" /\ call.name = getNameLower(prev.item)
     /\ call'.op = "removeItem" /\ call'.name = call.name)
    => /\ call'.ret = NULL
       /\ items' = items

\* C8 as stated: for every item I added to a room with addItem and then
\* removed with removeItem(lowercased name of I), the call returns I, I is
\* absent from the list afterwards with the other items in their order, and
\* a second removeItem with that name returns null and leaves the room alone.
C8_AddThenRemove ==
    [][RemovedWhatWasAdded /\ SecondRemoveFindsNothing]_vars

\* C8 amended: the same, for an item I added to a room whose list held no
\* entry with I's lowercased name before the addItem.
C8_AddThenRemoveUniqueName ==
    [][/\ (call.op = "addItem" /\ call.item # NULL /\ ~HoldsName(call.before, call.item))
            => RemovedWhatWasAdded
       /\ (prev.op = "addItem" /\ prev.item # NULL /\ ~HoldsName(prev.before, prev.item))
            => SecondRemoveFindsNothing]_vars

\* the torch was added behind the bed, removed, and the second removal
\* found nothing
C8_Witness ==
    /\ prev.op = "removeItem" /\ prev.ret = "torch" /\ prev.before = <<"bed", "torch">>
    /\ call.op = "removeItem" /\ call.name = prev.name /\ call.ret = NULL
    /\ items[TestRoom] = <<"bed">>

\* the interpreter states of the command loop
Running == pc = "prompt" /\ ~gameOver
AwaitingQuitConfirmation == pc = "confirm"
Terminated == pc = "done" \/ gameOver

\* C9: after a quit or exit line the next line is taken as the answer; yes
\* or y in any letter case terminates the loop; any other answer returns
\* to the prompt with room, inventory and item lists as before, is not run
\* as a command itself, and a go command that follows moves the player.
C9_QuitConfirmation ==
    /\ [][(LineRead /\ ParsedLines[inputLine'].verb \in {quit, exit})
            => (pc' = "confirm" /\ loc' = loc /\ inventory' = inventory /\ items' = items)]_vars
    /\ [][AnswerRead =>
            /\ loc' = loc /\ inventory' = inventory /\ items' = items /\ exits' = exits
            /\ IF ToLower(inputLine') \in {yes, yVerb}
               THEN Terminated' /\ pc' = "done"
               ELSE Running' /\ out' = << <<"Continuing", "">> >>]_vars
    /\ [][(out = << <<"Continuing", "">> >> /\ LineRead)
            => LET cmd == ParsedLines[inputLine']
                   lowerDir == ToLower(cmd.noun)
               IN  (cmd.verb \in GoVerbs /\ lowerDir \in DOMAIN exits[loc])
                   => loc' = exits[loc][lowerDir]]_vars

\* a quit was called off with "go north" as the answer, away from the start
C9_Witness ==
    /\ inputLine = Cmd(goVerb, north)
    /\ out = << <<"Continuing", "">> >>
    /\ Running
    /\ loc = "corridor_1"
    /\ inventory = <<"torch">>

\* C10: end of input at the prompt ends the loop at once, with no quit
\* question asked; and once the loop has ended, by a confirmed quit or by
\* end of input, no line is read and room, inventory and item lists never
\* change again.
C10_TerminatedIsAbsorbing ==
    [][/\ (pc = "prompt" /\ eof')
            => (pc' = "done" /\ loc' = loc /\ inventory' = inventory /\ items' = items)
       /\ Terminated
            => /\ Terminated'
               /\ inputLine' = inputLine
               /\ loc' = loc /\ inventory' = inventory /\ items' = items]_vars

\* the loop was ended by end of input, without gameOver being set
C10_Witness ==
    /\ pc = "done" /\ eof /\ ~gameOver
    /\ out = << <<"EofQuitting", "">> >>
    /\ inventory # <<>>

\* the loop was ended by a confirmed quit
C10_WitnessQuit == pc = "done" /\ gameOver /\ ~eof

\* the state at the first prompt, before any line was read
AtFirstPrompt ==
    /\ pc = "prompt" /\ ~eof
    /\ inputLine = <<>>
    /\ out = << <<"Location", loc>> >>
    /\ inventory = <<>>

\* the starting room is the first room created and holds the torch and the bed
StartRoomHoldsTorchAndBed ==
    /\ loc = allRooms[1]
    /\ loc = "start_cell"
    /\ items[loc] = <<"torch", "bed">>

\* the two takes of the scenario, typed as the lines first and second
TakeScenario(first, second) ==
    /\ (AtFirstPrompt /\ LineRead /\ inputLine' = first)
        => /\ out' = << <<"PickedUp", "torch">> >>
           /\ inventory' = <<"torch">>
           /\ items'[loc] = <<"bed">>
    /\ (/\ inputLine = first /\ inventory = <<"torch">> /\ loc = allRooms[1]
        /\ LineRead /\ inputLine' = second)
        => /\ out' = << <<"CantTake", "bed">> >>
           /\ items'[loc] = <<"bed">>
           /\ inventory' = inventory

\* C11 as stated: in the initial state the player is in the starting room,
\* whose items are the torch and the bed; "take torch" puts the torch in
\* the inventory and leaves only the bed in the room; "take bed" right
\* after is refused with the "can't take" message and the bed stays.
C11_TakeTorchThenBed ==
    /\ StartRoomHoldsTorchAndBed
    /\ [][TakeScenario(Cmd(takeVerb, <<"t","o","r","c","h">>),
                       Cmd(takeVerb, <<"b","e","d">>))]_vars

\* C11 amended: the same scenario with the items called by their full
\* names, "take dim torch" and then "take straw bed".
C11_TakeDimTorchThenStrawBed ==
    /\ StartRoomHoldsTorchAndBed
    /\ [][TakeScenario(Cmd(takeVerb, <<"d","i","m"," ","t","o","r","c","h">>),
                       Cmd(takeVerb, <<"s","t","r","a","w"," ","b","e","d">>))]_vars

\* the bed was refused right after the torch was taken in the starting room
C11_Witness ==
    /\ inputLine = Cmd(takeVerb, <<"s","t","r","a","w"," ","b","e","d">>)
    /\ out = << <<"CantTake", "bed">> >>
    /\ loc = "start_cell"
    /\ inventory = <<"torch">>
    /\ items["start_cell"] = <<"bed">>

\* C12: from the initial state "go north" takes the player to the room
\* under "north" of the starting room, the Narrow Corridor; "go south"
\* right after takes the player to the room under "south" there, which is
\* the starting room again (were "south" not mapped, the command would be
\* refused and the player stay).
C12_NorthThenSouth ==
    [][/\ (AtFirstPrompt /\ LineRead /\ inputLine' = Cmd(goVerb, north))
            => /\ loc' = exits[loc][north]
               /\ RoomName[loc'] = "Narrow Corridor"
       /\ (/\ inputLine = Cmd(goVerb, north)
           /\ out = << <<"YouMove", "">>, <<"Location", "corridor_1">> >>
           /\ LineRead /\ inputLine' = Cmd(goVerb, south))
            => IF south \in DOMAIN exits[loc]
               THEN loc' = exits[loc][south] /\ loc' = allRooms[1]
               ELSE loc' = loc /\ out' = << <<"CantGoThatWay", "">> >>]_vars

\* "go south" in the corridor has led back to the starting room
C12_Witness ==
    /\ inputLine = Cmd(goVerb, south)
    /\ out = << <<"YouMove", "">>, <<"Location", "start_cell">> >>
    /\ loc = "start_cell"
    /\ RoomName[loc] = "Damp Cell"

\* the verbs and synonyms the interpreter knows
KnownVerbs ==
    {quit, exit, lookVerb, inventoryVerb, iVerb, help, questionMark}
    \cup GoVerbs \cup TakeVerbs

\* room, inventory, item lists and exits stay and the loop goes on prompting
NothingChanges ==
    /\ loc' = loc
    /\ inventory' = inventory
    /\ items' = items
    /\ exits' = exits
    /\ Running'

\* C13: a line whose verb is none of the known verbs and synonyms prints
\* the "don't understand" message and changes nothing: the interpreter
\* stays Running and room, inventory and all item lists are as before.
C13_UnknownVerbChangesNothing ==
    [][LineRead =>
        LET cmd == ParsedLines[inputLine']
        IN  (cmd.verb # <<>> /\ cmd.verb \notin KnownVerbs)
            => /\ out' = << <<"DontUnderstand", "">> >>
               /\ NothingChanges]_vars

\* "drop dim torch" was not understood and the torch is still carried
C13_Witness ==
    /\ inputLine = Cmd(<<"d","r","o","p">>, <<"d","i","m"," ","t","o","r","c","h">>)
    /\ out = << <<"DontUnderstand", "">> >>
    /\ inventory = <<"torch">>
    /\ Running

\* a line that is empty or made of spaces and tabs only
Blank(line) == \A k \in 1..Len(line) : line[k] \in {" ", "\t"}

\* C14: a line that is empty or holds only whitespace (spaces, tabs) is
\* passed over in silence: nothing is printed, no command is run, the
\* state stays as it is and the interpreter prompts again.
C14_BlankLineIgnored ==
    [][(LineRead /\ Blank(inputLine'))
        => /\ out' = <<>>
           /\ NothingChanges]_vars

\* C15: go, move or walk, and take, get or pickup, with nothing after the
\* verb but spaces only print their hint ("Go where?", "Take what?"): the
\* player's go or take is not run, the interpreter stays Running and room,
\* inventory and item lists are as before.
C15_MissingNounOnlyHints ==
    [][LineRead =>
        LET cmd == ParsedLines[inputLine']
        IN  /\ (cmd.verb \in GoVerbs /\ cmd.noun = <<>>)
                => (out' = << <<"GoWhere", "">> >> /\ NothingChanges)
            /\ (cmd.verb \in TakeVerbs /\ cmd.noun = <<>>)
                => (out' = << <<"TakeWhat", "">> >> /\ NothingChanges)]_vars

\* "go " with a trailing space was answered by "Go where?" in the corridor
C15_Witness ==
    /\ inputLine = goVerb \o <<" ">>
    /\ out = << <<"GoWhere", "">> >>
    /\ loc = "corridor_1"
    /\ Running

\* "take" alone was answered by "Take what?"
C15_WitnessTake ==
    /\ inputLine = takeVerb
    /\ out = << <<"TakeWhat", "">> >>
    /\ Running

\* the verb of which a synonym stands for
Canonical(verb) ==
    CASE verb \in {move, walk} -> goVerb
      [] verb \in {get, pickup} -> takeVerb
      [] verb = exit -> quit
      [] verb = iVerb -> inventoryVerb
      [] verb = questionMark -> help
      [] OTHER -> verb

\* C16: a line that uses a synonym leaves the same state behind as the
\* line with the verb it stands for and the same argument: move and walk as
\* go, get and pickup as take, exit as quit, i as inventory, ? as help.
C16_SynonymsAgree ==
    [][LineRead =>
        LET cmd == ParsedLines[inputLine']
            same == loopTest(runBody(Current, Cmd(Canonical(cmd.verb), cmd.noun)))
        IN  (cmd.verb # Canonical(cmd.verb))
            => Reached = same]_vars

\* "walk south" has moved the player from the guard room to the corridor
C16_Witness ==
    /\ inputLine = Cmd(walk, south)
    /\ out = << <<"YouMove", "">>, <<"Location", "corridor_1">> >>
    /\ loc = "corridor_1"

\* "pickup iron sword" has picked up the sword
C16_WitnessTake ==
    /\ inputLine = Cmd(pickup, getNameLower("sword"))
    /\ out = << <<"PickedUp", "sword">> >>

\* C17: a go or take line typed with capital letters, in the verb, in the
\* argument or in both, leaves the player in the same room with the same
\* inventory and the same item lists as the same line typed in lowercase.
C17_LetterCaseIgnored ==
    [][LineRead =>
        LET typed == inputLine'
            lower == LowerLines[typed]
            same == loopTest(runBody(Current, lower))
        IN  (typed # lower /\ LowerParsed[typed].verb \in GoVerbs \cup TakeVerbs)
            => WorldOf(Reached) = WorldOf(same)]_vars

\* "Take DIM TORCH" has picked up the torch
C17_Witness ==
    /\ inputLine = Cmd(<<"T","a","k","e">>, <<"D","I","M"," ","T","O","R","C","H">>)
    /\ out = << <<"PickedUp", "torch">> >>
    /\ inventory = <<"torch">>

\* "go North" has moved the player from the guard room to the main hall
C17_WitnessGo ==
    /\ inputLine = Cmd(goVerb, North)
    /\ out = << <<"YouMove", "">>, <<"Location", "main_hall">> >>
    /\ loc = "main_hall"

\* C18: look, look with an item name, inventory, i, help and ? only
\* print: the player's room, the inventory with its order, every room's
\* item list and exits are as before, and the interpreter stays Running.
C18_ReadOnlyCommands ==
    [][LineRead =>
        LET cmd == ParsedLines[inputLine']
        IN  (cmd.verb \in {lookVerb, inventoryVerb, iVerb, help, questionMark})
            => /\ NothingChanges
               /\ out' # <<>>]_vars

\* the bed of the starting room was looked at while the torch is carried
C18_Witness ==
    /\ inputLine = Cmd(lookVerb, <<"s","t","r","a","w"," ","b","e","d">>)
    /\ out = << <<"Describe", "bed">> >>
    /\ loc = "start_cell"
    /\ items["start_cell"] = <<"bed">>
    /\ inventory = <<"torch">>

\* the inventory was listed with two items in it
C18_WitnessInventory ==
    /\ inputLine = iVerb
    /\ out = << <<"Carrying", "sword">>, <<"Carrying", "torch">> >>
    /\ inventory = <<"sword", "torch">>

\* the rooms one go command away from room r
Neighbours(r) == {exits[r][d] : d \in DOMAIN exits[r]}

\* the rooms at most two go commands away from the starting room
WithinTwoMoves ==
    LET one == Neighbours(allRooms[1])
    IN  {allRooms[1]} \cup one \cup UNION {Neighbours(r) : r \in one}

\* C19: the later addExit call wins: the Narrow Corridor's north exit is
\* the Guard Room, not the Main Hall; going north from the Damp Cell passes
\* the Narrow Corridor and the Guard Room before the Main Hall, the Main
\* Hall is more than two moves from the Damp Cell, and no step takes the
\* player from the Narrow Corridor into the Main Hall.
C19_LastWriteWins ==
    /\ [](/\ getExit(exits["corridor_1"], north) = "guard_room"
          /\ RoomName[getExit(exits["corridor_1"], north)] = "Guard Room"
          /\ getExit(exits[allRooms[1]], north) = "corridor_1"
          /\ getExit(exits["guard_room"], north) = "main_hall"
          /\ "main_hall" \notin WithinTwoMoves)
    /\ [][loc = "corridor_1" => loc' # "main_hall"]_vars

\* the player came into the Main Hall by go north, with nothing taken on the way
C19_Witness ==
    /\ inputLine = Cmd(goVerb, north)
    /\ out = << <<"YouMove", "">>, <<"Location", "main_hall">> >>
    /\ loc = "main_hall"
    /\ inventory = <<>>
    /\ items = GameInit.items

\* C20: every exit of every room has a lowercase direction as its key and
\* a room of the world as its target, the exit and item maps cover exactly
\* the rooms of the world, and no step changes any exit.
C20_ExitsWellFormedAndFixed ==
    /\ [](/\ DOMAIN exits = Rooms
          /\ DOMAIN items = Rooms
          /\ \A r \in Rooms : \A d \in DOMAIN exits[r] :
                /\ d = ToLower(d)
                /\ exits[r][d] # NULL
                /\ exits[r][d] \in Rooms)
    /\ [][exits' = exits]_vars

\* a go command was refused in the Armory and one was obeyed before it
C20_Witness ==
    /\ inputLine = Cmd(goVerb, west)
    /\ out = << <<"CantGoThatWay", "">> >>
    /\ loc = "armory"
    /\ exits = GameInit.exits

\* C21: every exit can be walked back: the room an exit leads to has at
\* least one exit that leads to the room the exit belongs to, and every step
\* that moves the player ends in a room with an exit to the room left.
C21_ExitsLeadBack ==
    /\ [](\A r \in Rooms : \A d \in DOMAIN exits[r] :
              exits[r][d] \in Rooms /\ r \in Neighbours(exits[r][d]))
    /\ [][loc' # loc => loc \in Neighbours(loc')]_vars

\* the player went north from the Tower Base, whose way back is down
C21_Witness ==
    /\ inputLine = Cmd(goVerb, north)
    /\ out = << <<"YouMove", "">>, <<"Location", "tower_stairs">> >>
    /\ loc = "tower_stairs"
    /\ getExit(exits[loc], down) = "tower_base"

\* the direction opposite to a direction
Opposite(d) ==
    CASE d = north -> south
      [] d = south -> north
      [] d = east -> west
      [] d = west -> east
      [] d = up -> down
      [] d = down -> up

\* C22: exits come in opposite pairs: after a go command in direction d
\* that moved the player, a go command in the opposite direction moves the
\* player again, to a room whose exit in direction d leads to the room the
\* player has just left, that is, back to where the first one started.
C22_OppositeReturns ==
    [][LineRead =>
        LET first == ParsedLines[inputLine]
            second == ParsedLines[inputLine']
            d == LowerParsed[inputLine].noun
        IN  (/\ inputLine \in Lines
             /\ first.verb \in GoVerbs
             /\ Len(out) = 2 /\ out[1] = <<"YouMove", "">>
             /\ d \in Directions
             /\ second.verb \in GoVerbs
             /\ second.noun = Opposite(d))
            => /\ out' = << <<"YouMove", "">>, <<"Location", loc'>> >>
               /\ getExit(exits[loc'], d) = loc]_vars

\* a vector in non-decreasing order
IsSorted(arr) == \A i, j \in 1..Len(arr) : i <= j => arr[i] <= arr[j]

\* C23: for every sorted vector, the empty one included, and every target,
\* binarySearch returns; it returns an index of the vector that holds the
\* target when the target occurs, and -1 exactly when the target does not occur.
C23_BinarySearchCorrect ==
    /\ [](IsSorted(bs.arr) =>
            /\ bs.pc # "crashed"
            /\ bs.pc = "returned" =>
                 LET occurs == \E i \in 1..Len(bs.arr) : bs.arr[i] = bs.target
                 IN  /\ occurs => /\ bs.ret \in 0..(Len(bs.arr) - 1)
                                  /\ bs.arr[bs.ret + 1] = bs.target
                     /\ (bs.ret = -1) <=> ~occurs)
    /\ (IsSorted(bs.arr) => <>(bs.pc = "returned"))

\* the target was found in a sorted vector with several copies of it
C23_Witness ==
    /\ bs.pc = "returned"
    /\ bs.arr = <<0, 0, 2, 2, 2>>
    /\ bs.target = 2
    /\ bs.ret = 2

\* the search for a target that lies between the elements returned -1
C23_WitnessAbsent ==
    /\ bs.pc = "returned"
    /\ bs.arr = <<0, 0, 0, 2>>
    /\ bs.target = 1
    /\ bs.ret = -1

\* the search of the empty vector returned -1
C23_WitnessEmpty ==
    /\ bs.pc = "returned"
    /\ bs.arr = <<>>
    /\ bs.ret = -1

\* C24: for every vector, sorted or not, whose length an int can hold, no
\* int operation of binarySearch overflows; low, high and mid are ints with
\* -1 <= high and low <= arr.size(); every arr[mid] has mid within the
\* vector; and high - low gets smaller in every iteration that does not return.
C24_NoOverflowInBounds ==
    /\ [](/\ ~bs.ub
          /\ bs.pc # "crashed"
          /\ bs.low \in IntRange /\ bs.high \in IntRange /\ bs.mid \in IntRange
          /\ -1 <= bs.high
          /\ bs.low <= Len(bs.arr)
          /\ bs.pc = "probe" => (0 <= bs.mid /\ bs.mid < Len(bs.arr)))
    /\ [][(bs.pc = "probe" /\ bs'.pc = "while")
            => bs'.high - bs'.low < bs.high - bs.low]_vars

\* a vector of the greatest length an int can hold was searched up to its
\* end: low has come to equal arr.size(), the greatest int
C24_Witness ==
    /\ bs.pc = "returned"
    /\ Len(bs.arr) = IntMax
    /\ bs.low = IntMax
    /\ bs.high = IntMax - 1
    /\ bs.ret = -1

\* an unsorted vector was searched
C24_WitnessUnsorted ==
    /\ bs.pc = "returned"
    /\ ~IsSorted(bs.arr)
    /\ Len(bs.arr) = IntMax
    /\ bs.high = -1

\* the messages of the branches that Player::go, Player::look and
\* Player::take take when the player has no current location
NullLocationMessages == {"FloatingInVoid", "Nowhere", "NothingHereToTake"}

\* C25: the game starts with the player in the first room created, the
\* Damp Cell; in every reachable state the player's location is not null
\* and is a room of the world, and no step prints the message of a
\* null-location branch of go, look or take.
C25_LocationNeverNull ==
    /\ (loc = allRooms[1] /\ RoomName[loc] = "Damp Cell")
    /\ [](/\ loc # NULL
          /\ loc \in Rooms
          /\ \A k \in 1..Len(out) : out[k][1] \notin NullLocationMessages)

\* the player looked around in the room farthest from the start
C25_Witness ==
    /\ inputLine = lookVerb
    /\ loc = "underground_stream"
    /\ out # <<>>
    /\ out[1] = <<"Location", "underground_stream">>

\* the items of a list, as a set
ItemsOf(its) == {its[k] : k \in 1..Len(its)}

\* C26: every item of the inventory is takeable; every item that is not
\* takeable lies in the room createWorld put it in; the inventory only
\* grows at its end, and no room's item list ever gains an item.
C26_InventoryOnlyGrows ==
    /\ [](/\ \A k \in 1..Len(inventory) : ItemTable[inventory[k]].takeable
          /\ \A r \in Rooms : \A item \in ItemsOf(GameInit.items[r]) :
                ~ItemTable[item].takeable => item \in ItemsOf(items[r]))
    /\ [][/\ Len(inventory') >= Len(inventory)
          /\ SubSeq(inventory', 1, Len(inventory)) = inventory
          /\ \A r \in Rooms : ItemsOf(items'[r]) \subseteq ItemsOf(items[r])]_vars

\* the oak table was refused to a player who carries two items
C26_Witness ==
    /\ inputLine = Cmd(takeVerb, ItemTable["table"].name)
    /\ out = << <<"CantTake", "table">> >>
    /\ inventory = <<"torch", "sword">>
    /\ loc = "guard_room"

\* the rooms a go command can lead to from each room of the built world
\* (the room itself when a direction is no exit)
GoTable ==
    [r \in Rooms |-> {go([GameInit EXCEPT !.loc = r], d).loc : d \in Directions}]

RECURSIVE GoClosure(_)
\* the rooms that sequences of go commands lead to from the rooms rs
GoClosure(rs) ==
    LET further == rs \cup UNION {GoTable[r] : r \in rs}
    IN  IF further = rs THEN rs ELSE GoClosure(further)

\* the rooms within reach of each room
ReachTable == [r \in Rooms |-> GoClosure({r})]

\* the items a player can pick up
Takeable == {item \in Items : ItemTable[item].takeable}

\* the world as createWorld builds it: 21 rooms, all of which go commands
\* reach from the starting room, and 10 takeable items
WorldIsConnected ==
    /\ Cardinality(Rooms) = 21
    /\ Len(allRooms) = 21
    /\ ReachTable[allRooms[1]] = Rooms
    /\ Cardinality(Takeable) = 10

\* go commands lead from the player's room to every room, and every
\* takeable item not yet carried lies in a room where a take command with
\* its name puts it at the end of the inventory
Collectable ==
    /\ exits = GameInit.exits
    /\ loc \in Rooms
    /\ ReachTable[loc] = Rooms
    /\ \A item \in Takeable \ ItemsOf(inventory) :
          \E r \in ReachTable[loc] :
             /\ item \in ItemsOf(items[r])
             /\ take([Current EXCEPT !.loc = r], ItemTable[item].name).inventory
                   = Append(inventory, item)

C28_FiniteInputTerminates ==
    /\ <>Terminated
    /\ [][(pc = "confirm" /\ eof')
            => /\ Running'
               /\ out' = << <<"Continuing", "">> >>
               /\ loc' = loc /\ inventory' = inventory /\ items' = items]_vars
    /\ [][(pc = "prompt" /\ eof) => (Terminated' /\ pc' = "done")]_vars

\* the stream ended while the quit question was open, and the interpreter
\* was sent back to its prompt
C28_Witness ==
    /\ eof
    /\ Running
    /\ out = << <<"Continuing", "">> >>
    /\ inventory = <<"torch">>

\* the interpreter has terminated on the read that followed
C28_WitnessDone ==
    /\ eof
    /\ pc = "done"
    /\ ~gameOver
    /\ out = << <<"EofQuitting", "">> >>
    /\ inventory = <<"torch">>

=============================================================================
